---- MODULE Spec2Model ----
(***************************************************************************)
(* Model of the TwitterBot services: the posting primitive                 *)
(* postTweetWithClient, the multi-account loop postTweetToAllAccounts, the *)
(* retry pass retryFailedTweets, the two JSON files they maintain, the     *)
(* lazy client loader and the tweet text assembly of generateTweet.        *)
(*                                                                         *)
(* A text is a sequence of one-character strings.  String positions follow *)
(* JavaScript: 0-based, indexOf gives -1 when the needle is absent.        *)
(***************************************************************************)
EXTENDS Integers, Sequences, FiniteSets, TLC

\* ------------------------------------------------------------------ bounds
\* longest client list of a run
MaxClients == 3
\* the configured maxRetries (config.twitterConfig.maxRetries) when it is set
MaxRetriesCfg == 2
\* provider calls of one run that do not end in a response carrying an id
MaxFaults == 2
\* longest text body the AI service returns
MaxBodyLen == 300
\* most lines of accounts.txt
MaxLines == 3
\* most entries with an outcome in a history handed to calculateSmartDelay
MaxHistory == 11
\* most records pushed to tweet_history.json, the records found there included
MaxAppends == 102

\* --------------------------------------------------------- program constants
MaxTweetLen == 280
HistoryCap == 100
DefaultRetryDelay == 300
DuplicateWaitMs == 2000
RetryGapMs == 30000
DefaultDelay == 30000
SampleSize == 10
MinSample == 3

\* ------------------------------------------------------------ text helpers
Pad(n) == [i \in 1..n |-> "x"]

\* String.prototype.substring(a, b) for 0 <= a <= b, b clipped to the length
Substring(s, a, b) == SubSeq(s, a + 1, IF b > Len(s) THEN Len(s) ELSE b)

\* String.prototype.substring(a)
SubstringFrom(s, a) == SubSeq(s, a + 1, Len(s))

\* a search that reports the last occurrence instead of the first
IndexOfLast(s, t) ==
  LET occ == {i \in 0..(Len(s) - Len(t)) : SubSeq(s, i + 1, i + Len(t)) = t}
  IN IF occ = {} THEN -1 ELSE CHOOSE i \in occ : \A j \in occ : i >= j

\* String.prototype.indexOf(t): 0-based position of the first occurrence, -1 when absent
IndexOf(s, t) ==
  LET occ == {i \in 0..(Len(s) - Len(t)) : SubSeq(s, i + 1, i + Len(t)) = t}
  IN IF occ = {} THEN -1 ELSE CHOOSE i \in occ : \A j \in occ : i <= j

\* String.prototype.includes(t)
Includes(s, t) == IndexOf(s, t) # -1

\* the mention the duplicate-content branch looks for
MentionToken == <<"@", "g", "i", "v", "e", "r", "e", "p">>

DigitChars == <<"0", "1", "2", "3", "4", "5", "6", "7", "8", "9">>

TwoDigits(n) == <<DigitChars[(n \div 10) + 1], DigitChars[(n % 10) + 1]>>

\* new Date().toISOString().slice(11, 19) for a clock of sec seconds into the day
IsoTime(sec) ==
  TwoDigits(sec \div 3600) \o <<":">> \o TwoDigits((sec \div 60) % 60)
    \o <<":">> \o TwoDigits(sec % 60)

\* the wall clock readings a run may see (seconds into the UTC day)
Clocks == {3723, 86399}

\* the text of the duplicate-content retry
UniqueTweet(tweetText, timestamp) ==
  IF Includes(tweetText, MentionToken)
  THEN LET tagIndex == IndexOf(tweetText, MentionToken)
       IN Substring(tweetText, 0, tagIndex) \o <<"[">> \o timestamp \o <<"]", " ">>
            \o SubstringFrom(tweetText, tagIndex)
  ELSE tweetText \o <<" ", "[">> \o timestamp \o <<"]">>

\* ------------------------------------------------------------------- inputs
TextPlain == <<"h", "i">>
TextTagged == <<"a", " ">> \o MentionToken \o <<" ", "b">>
TextTwoTags == MentionToken \o <<" ">> \o MentionToken
TextEmpty == <<>>
TextMax == Pad(MaxTweetLen)
TextLong == Pad(MaxTweetLen + 1)

Texts == {TextPlain, TextTagged, TextTwoTags, TextEmpty, TextMax, TextLong}

\* what the provider session does with one call: a response with an id, a
\* response without one, an error object with a code (0: no code property),
\* or a rejection with null/undefined
ErrorCodes == {429, 187, 88, 0}

\* an error without a code whose message holds "duplicate", or "rate limit"
MessageErrors ==
  {[kind |-> "duplicateMessage", code |-> 0], [kind |-> "rateLimitMessage", code |-> 0]}

Outcomes ==
  {[kind |-> "ok", code |-> 0], [kind |-> "noid", code |-> 0], [kind |-> "null", code |-> 0]}
    \cup {[kind |-> "error", code |-> c] : c \in ErrorCodes}
    \cup MessageErrors

Accounts == 1..MaxClients

\* the client lists of a run: accounts 1..n in file order, and one list that
\* is not in the order of the account numbers
ClientLists == {[i \in 1..n |-> i] : n \in 0..MaxClients} \cup {<<2, 1>>}

Configs == [maxRetries : {0, MaxRetriesCfg}, retryDelay : {0, 60}]

FailedRecord(text, n) == [text |-> text, accountNumber |-> n]

\* failed_tweets.json as earlier runs may have left it
QueueAB ==
  <<FailedRecord(TextPlain, 1), FailedRecord(TextTagged, 2), FailedRecord(TextTwoTags, 1)>>

QueueBA == <<FailedRecord(TextEmpty, 2), FailedRecord(TextMax, 1)>>

InitQueues == {<<>>, QueueAB, QueueBA}

Outcome(n, ok) == [accountNumber |-> n, success |-> ok]

\* tweet_history.json as earlier runs may have left it
HistoryFailing ==
  [i \in 1..3 |-> [text |-> TextPlain, accounts |-> <<Outcome(1, i = 1)>>]]

InitHistories == {<<>>, HistoryFailing}

\* -------------------------------------------------------------------- state
VARIABLES
  clients,        \* twitterClients: the account numbers of the loaded clients, in order
  config,         \* config.twitterConfig; 0 stands for a setting that is not configured
  historyFile,    \* tweet_history.json (no file: the empty sequence)
  failedFile,     \* failed_tweets.json, the Failure Queue (no file: the empty sequence)
  pc,             \* "idle", "attempt" (in postTweetWithClient), "returned", "done"
  caller,         \* the running operation: "none", "postToAll", "retryFailed"
  tweetText,      \* postTweetToAllAccounts: its tweetText argument
  idx,            \* position of the loop in clients (postToAll) or in todo (retryFailed)
  results,        \* postTweetToAllAccounts: results
  history,        \* postTweetToAllAccounts: the local history
  todo,           \* retryFailedTweets: the queued entries to replay, in replay order
  skipped,        \* retryFailedTweets: number of entries skipped for lack of a client
  attemptText,    \* postTweetWithClient: tweetText of the current (recursive) invocation
  retryCount,     \* postTweetWithClient: retryCount of the current invocation
  accountNumber,  \* postTweetWithClient: twitterClientObj.accountNumber
  result,         \* postTweetWithClient: the value returned
  lastOutcome,    \* what the provider did with the latest call
  callText,       \* tweetText of the outermost postTweetWithClient invocation
  callRetries,    \* retryCount of the outermost invocation
  callQueued,     \* length of failed_tweets.json when the outermost invocation started
  calls,          \* provider calls made since the outermost invocation started
  sleeps,         \* the sleep() calls of the running operation, in order
  provLog,        \* the provider calls of the running operation, in order
  invLog,         \* the outermost postTweetWithClient invocations of the operation, in order
  faults,         \* provider calls of the run that did not end in a response with an id
  returned,       \* what the operation returned
  historyBefore,  \* tweet_history.json as the operation found it
  failedBefore,   \* failed_tweets.json as the operation found it
  historyFault,   \* what fails when tweet_history.json is used: "none", "read", "parse", "write"
  aiServiceName,  \* generateTweet: its aiServiceName argument
  generatedText,  \* generateTweet: the body (generatedText or alternativeText)
  tweet,          \* generateTweet: the value returned
  genPc,          \* generateTweet: "start", "calling" (the AI service), "done"
  fileContent,    \* accounts.txt
  requested,      \* lazyLoadTwitterClient: its accountNumber argument
  loadResult,     \* lazyLoadTwitterClient: "none", "existing", "loaded", "notFound"
  account,        \* lazyLoadTwitterClient: the credentials found, <<>> when none
  delayAccount,   \* calculateSmartDelay: its accountNumber argument
  delayHistory,   \* calculateSmartDelay: its history argument
  delayMs,        \* calculateSmartDelay: the value returned, 0 before the call
  appended        \* every record pushed by saveTweetHistory so far, oldest first

\* the variables of the posting operations, but for the client list
postVars ==
  <<config, historyFile, failedFile, pc, caller, tweetText, idx, results,
    history, todo, skipped, attemptText, retryCount, accountNumber, result, lastOutcome,
    callText, callRetries, callQueued, calls, sleeps, provLog, invLog, faults,
    returned, historyBefore, failedBefore, historyFault>>

genVars == <<aiServiceName, generatedText, tweet, genPc>>

loadVars == <<fileContent, requested, loadResult, account>>

unitVars == <<delayAccount, delayHistory, delayMs, appended>>

vars == <<clients, postVars, genVars, loadVars, unitVars>>

\* the history argument of calculateSmartDelay: an array, or null (undefined)
JsArray(items) == [null |-> FALSE, items |-> items]

NullHistory == [null |-> TRUE, items |-> <<>>]

NoOutcome == [kind |-> "none", code |-> 0]
NoResult == [accountNumber |-> 0, success |-> FALSE]
NoReturn == [op |-> "none", results |-> <<>>, flag |-> FALSE]

\* no posting operation has started
PostIdle ==
  /\ pc = "idle"
  /\ caller = "none"
  /\ tweetText = <<>>
  /\ idx = 0
  /\ results = <<>>
  /\ history = <<>>
  /\ todo = <<>>
  /\ skipped = 0
  /\ attemptText = <<>>
  /\ retryCount = 0
  /\ accountNumber = 0
  /\ result = NoResult
  /\ lastOutcome = NoOutcome
  /\ callText = <<>>
  /\ callRetries = 0
  /\ callQueued = 0
  /\ calls = 0
  /\ sleeps = <<>>
  /\ provLog = <<>>
  /\ invLog = <<>>
  /\ faults = 0
  /\ returned = NoReturn
  /\ historyBefore = historyFile
  /\ failedBefore = failedFile

\* no files, the default configuration
PostQuiet ==
  /\ config = [maxRetries |-> 0, retryDelay |-> 0]
  /\ historyFile = <<>>
  /\ failedFile = <<>>
  /\ PostIdle

GenIdle ==
  /\ aiServiceName = "Fallback"
  /\ generatedText = <<>>
  /\ tweet = <<>>
  /\ genPc = "start"

LoadIdle ==
  /\ fileContent = <<>>
  /\ requested = 0
  /\ loadResult = "none"
  /\ account = <<>>

UnitIdle ==
  /\ delayAccount = 0
  /\ delayHistory = NullHistory
  /\ delayMs = 0
  /\ appended = <<>>

\* the files left by earlier runs are varied one at a time and with the
\* default retry budget; the longest client lists start from empty files
Init ==
  /\ clients \in ClientLists
  /\ config \in Configs
  /\ historyFile \in InitHistories
  /\ failedFile \in InitQueues
  /\ failedFile # <<>> =>
       historyFile = <<>> /\ config.maxRetries = 0 /\ Len(clients) <= 2
  /\ historyFile # <<>> => config = [maxRetries |-> 0, retryDelay |-> 0]
  /\ config.maxRetries # 0 => Len(clients) <= 2
  /\ PostIdle
  /\ historyFault = "none"
  /\ GenIdle
  /\ LoadIdle
  /\ UnitIdle

\* ----------------------------------------------------------- the two files
\* a save that leaves the file as it is
DropHistory(file, text, res) == file

\* a store that keeps the first 100 records
KeepOldestHistory(file, text, res) ==
  LET pushed == Append(file, [text |-> text, accounts |-> res])
  IN IF Len(pushed) > HistoryCap THEN SubSeq(pushed, 1, HistoryCap) ELSE pushed

\* saveTweetHistory: push one record for the results so far, keep the last 100,
\* write the file; the value is both the new file and the history returned
saveTweetHistory(file, text, res) ==
  LET pushed == Append(file, [text |-> text, accounts |-> res])
  IN IF Len(pushed) > HistoryCap
     THEN SubSeq(pushed, Len(pushed) - HistoryCap + 1, Len(pushed))
     ELSE pushed

\* a catch that returns what the file holds
FileOnError(file) == file

\* return [] in the catch of saveTweetHistory
HistoryOnError(file) == <<>>

\* tweet_history.json after a call of saveTweetHistory: untouched when the
\* read or the write throws, started afresh when the content does not parse
SavedFile(fault, file, text, res) ==
  IF fault \in {"read", "write"} THEN file
  ELSE IF fault = "parse" THEN saveTweetHistory(<<>>, text, res)
  ELSE saveTweetHistory(file, text, res)

\* the value returned by that call
SavedHistory(fault, file, text, res) ==
  IF fault \in {"read", "write"}
  THEN HistoryOnError(file)
  ELSE SavedFile(fault, file, text, res)

\* a file that did not parse has been rewritten; the other faults stay
FaultAfterSave(fault) == IF fault = "parse" THEN "none" ELSE fault

\* saveFailedTweet: push {text, accountNumber} and write the file
saveFailedTweet(file, text, n) == Append(file, FailedRecord(text, n))

\* a retry pass that leaves the file as it is
KeepFailedTweets(file) == file

\* fs.writeFileSync(failedTweetsPath, JSON.stringify([])) at the end of a retry pass
clearFailedTweets(file) == <<>>

\* ------------------------------------------------------------- delay policy
\* tweet.accounts.find(a => a.accountNumber === accountNumber): index, 0 when none
FindAccount(accounts, n) ==
  LET hit == {k \in 1..Len(accounts) : accounts[k].accountNumber = n}
  IN IF hit = {} THEN 0 ELSE CHOOSE k \in hit : \A j \in hit : k <= j

\* a null among the accounts of an entry
NullOutcome == [accountNumber |-> 0, success |-> FALSE]

\* tweet.accounts.find(...) throws a TypeError: it reads a.accountNumber of a
\* null before it has found the account
FindThrows(accounts, n) ==
  \E k \in 1..Len(accounts) :
    /\ accounts[k] = NullOutcome
    /\ \A j \in 1..(k - 1) : accounts[j].accountNumber # n

\* a scan that starts at the oldest entry
RECURSIVE AccountHistoryOldestFirst(_, _, _, _)
AccountHistoryOldestFirst(hist, i, n, acc) ==
  IF i < 1 \/ Len(acc) >= SampleSize
  THEN [thrown |-> FALSE, sample |-> acc]
  ELSE LET e == hist[Len(hist) + 1 - i]
           k == FindAccount(e.accounts, n)
       IN IF FindThrows(e.accounts, n)
          THEN [thrown |-> TRUE, sample |-> acc]
          ELSE AccountHistoryOldestFirst(hist, i - 1, n,
                                         IF k # 0 THEN Append(acc, e.accounts[k]) ELSE acc)

\* the loop of calculateSmartDelay: from entry i down, until 10 outcomes are
\* sampled; thrown when the loop comes to a malformed entry
RECURSIVE AccountHistory(_, _, _, _)
AccountHistory(hist, i, n, acc) ==
  IF i < 1 \/ Len(acc) >= SampleSize
  THEN [thrown |-> FALSE, sample |-> acc]
  ELSE IF FindThrows(hist[i].accounts, n)
  THEN [thrown |-> TRUE, sample |-> acc]
  ELSE LET k == FindAccount(hist[i].accounts, n)
       IN AccountHistory(hist, i - 1, n,
                         IF k # 0 THEN Append(acc, hist[i].accounts[k]) ELSE acc)

\* a wait that does not look at the history
FixedDelay(n, history_) == DefaultDelay

\* a ladder whose tests are not strict
DelayLadderLoose(errorCount, size) ==
  IF 10 * errorCount >= 5 * size THEN 120000
  ELSE IF 10 * errorCount >= 3 * size THEN 60000
  ELSE IF 10 * errorCount >= 1 * size THEN 45000
  ELSE 30000

\* errorRate > 0.5, > 0.3, > 0.1 with errorRate = errorCount / size, compared
\* as fractions (the quotients that equal 0.5, 0.3 or 0.1 are exactly the
\* doubles these literals denote)
DelayLadder(errorCount, size) ==
  IF 10 * errorCount > 5 * size THEN 120000
  ELSE IF 10 * errorCount > 3 * size THEN 60000
  ELSE IF 10 * errorCount > 1 * size THEN 45000
  ELSE 30000

\* a sample that is used whatever its size
EnoughAlways(sample) == TRUE

\* accountHistory.length < 3 is false
Enough(sample) == Len(sample) >= MinSample

\* the whole function: the default for no history, a thrown error or a small
\* sample, the ladder otherwise
calculateSmartDelay(n, history_) ==
  IF history_.null \/ Len(history_.items) = 0
  THEN DefaultDelay
  ELSE LET hist == history_.items
           scan == AccountHistory(hist, Len(hist), n, <<>>)
           errorCount ==
             Cardinality({k \in 1..Len(scan.sample) : ~scan.sample[k].success})
       IN IF scan.thrown THEN 30000
          ELSE IF ~Enough(scan.sample) THEN DefaultDelay
          ELSE DelayLadder(errorCount, Len(scan.sample))

\* ------------------------------------------------------- postTweetWithClient
\* config.twitterConfig?.maxRetries || 1
MaxRetries(cfg) == IF cfg.maxRetries = 0 THEN 1 ELSE cfg.maxRetries

\* the retry delay taken as milliseconds, without the conversion from seconds
RetryWaitSeconds(cfg) == IF cfg.retryDelay = 0 THEN DefaultRetryDelay ELSE cfg.retryDelay

\* (config.twitterConfig?.retryDelay || 300) * 1000
RetryWaitMs(cfg) ==
  (IF cfg.retryDelay = 0 THEN DefaultRetryDelay ELSE cfg.retryDelay) * 1000

\* a validation that refuses the empty text only
InvalidOnlyEmpty(text) == Len(text) = 0

\* a validation that lets a text of 281 characters through
InvalidAbove281(text) == Len(text) = 0 \/ Len(text) > MaxTweetLen + 1

\* the validation at the head of postTweetWithClient throws for these texts
Invalid(text) == Len(text) = 0 \/ Len(text) > MaxTweetLen

\* a retry that does not use up the budget
RetriesKept(r) == r

\* retryCount - 1, the budget handed to the recursive invocation
RetriesAfter(r) == r - 1

Sleep(why, ms, n) == [why |-> why, ms |-> ms, accountNumber |-> n]

\* how a provider call is entered in provLog
Class(o) ==
  IF o.kind = "ok" THEN "ok"
  ELSE IF o.kind = "error" /\ o.code = 429 THEN "rateLimited"
  ELSE IF o.kind = "error" /\ o.code = 187 THEN "duplicate"
  ELSE "failed"

ProviderCall(o) ==
  [accountNumber |-> accountNumber, text |-> attemptText, class |-> Class(o)]

\* the variables of the running operation that postTweetWithClient never touches
callerVars ==
  <<clients, config, historyFile, caller, tweetText, idx, results, history, todo,
    skipped, accountNumber, callText, callRetries, callQueued, invLog, returned,
    historyBefore, failedBefore, historyFault, genVars, loadVars, unitVars>>

\* the variables of an invocation of postTweetWithClient
frameVars ==
  <<attemptText, retryCount, accountNumber, result, lastOutcome, callText, callRetries,
    callQueued, calls, invLog>>

Invocation(text, n, r) == [text |-> text, accountNumber |-> n, retryCount |-> r]

\* the frame of a fresh outermost invocation postTweetWithClient(text, client n, config, r)
Invoke(text, n, r) ==
  /\ attemptText' = text
  /\ accountNumber' = n
  /\ retryCount' = r
  /\ callText' = text
  /\ callRetries' = r
  /\ callQueued' = Len(failedFile)
  /\ calls' = 0
  /\ invLog' = Append(invLog, Invocation(text, n, r))
  /\ result' = NoResult
  /\ lastOutcome' = NoOutcome
  /\ pc' = "attempt"

\* the provider is called and answers o
Called(o) ==
  /\ pc = "attempt"
  /\ ~Invalid(attemptText)
  /\ o.kind # "ok" => faults < MaxFaults
  /\ faults' = IF o.kind = "ok" THEN faults ELSE faults + 1
  /\ provLog' = Append(provLog, ProviderCall(o))
  /\ calls' = calls + 1
  /\ lastOutcome' = o

\* the inner catch without a retry: saveFailedTweet, then the failed result
Fail ==
  /\ failedFile' = saveFailedTweet(failedFile, attemptText, accountNumber)
  /\ result' = Outcome(accountNumber, FALSE)
  /\ pc' = "returned"

\* empty or over-long text: the validation throws, no provider call
PostInvalid ==
  /\ pc = "attempt"
  /\ Invalid(attemptText)
  /\ Fail
  /\ UNCHANGED <<callerVars, attemptText, retryCount, lastOutcome, calls, sleeps,
                 provLog, faults>>

\* a test that takes any response for a success
AcceptedAnyResponse(o) == o.kind \in {"ok", "noid"}

\* response && response.data && response.data.id
Accepted(o) == o.kind = "ok"

\* a response carrying an id
PostSuccess ==
  /\ \E o \in Outcomes : Accepted(o) /\ Called(o)
  /\ result' = Outcome(accountNumber, TRUE)
  /\ pc' = "returned"
  /\ UNCHANGED <<callerVars, failedFile, attemptText, retryCount, sleeps>>

\* parseTwitterError: the explanation logged for the error caught (the error
\* of a failed validation or of a response without an id has no code and a
\* message of its own)
parseTwitterError(o) ==
  IF o.code # 0
  THEN CASE o.code = 88 -> "Rate limit exceeded."
         [] o.code = 187 -> "Duplicate tweet content."
         [] o.code = 429 -> "Too many requests / Rate limit exceeded."
         [] OTHER -> "Twitter error code"
  ELSE IF o.kind = "duplicateMessage" THEN "Duplicate tweet content."
  ELSE IF o.kind = "rateLimitMessage" THEN "Rate limit exceeded."
  ELSE "Twitter account encountered an error."

\* a test on the explanation instead of the code
DuplicateByMessage(o) ==
  o.kind \notin {"ok", "null"} /\ parseTwitterError(o) = "Duplicate tweet content."

\* twitterError.code === 429
RateLimitCode(o) == o.kind = "error" /\ o.code = 429

\* twitterError.code === 187
DuplicateCode(o) == o.kind = "error" /\ o.code = 187

\* code 429 with retries left: sleep, then the same text again
PostRateLimited ==
  /\ \E o \in Outcomes : RateLimitCode(o) /\ Called(o)
  /\ retryCount > 0
  /\ sleeps' = Append(sleeps, Sleep("rateLimit", RetryWaitMs(config), accountNumber))
  /\ retryCount' = RetriesAfter(retryCount)
  /\ UNCHANGED <<callerVars, failedFile, attemptText, result, pc>>

\* code 187 with retries left: mark the text, short sleep, then the marked text
PostDuplicate ==
  /\ \E o \in Outcomes : DuplicateCode(o) /\ Called(o)
  /\ retryCount > 0
  /\ \E now \in Clocks : attemptText' = UniqueTweet(attemptText, IsoTime(now))
  /\ sleeps' = Append(sleeps, Sleep("duplicate", DuplicateWaitMs, accountNumber))
  /\ retryCount' = RetriesAfter(retryCount)
  /\ UNCHANGED <<callerVars, failedFile, result, pc>>

\* a response without an id, any other error, or no retries left
PostFailed ==
  /\ \E o \in Outcomes :
       /\ o.kind # "null"
       /\ ~Accepted(o)
       /\ RateLimitCode(o) \/ DuplicateCode(o) => retryCount = 0
       /\ Called(o)
  /\ Fail
  /\ UNCHANGED <<callerVars, attemptText, retryCount, sleeps>>

\* a fault that is thrown on to the caller
Rethrown(n) == [pc |-> "thrown", result |-> NoResult]

\* the outer catch: the fault is logged and the failed result is returned
OuterCatch(n) == [pc |-> "returned", result |-> Outcome(n, FALSE)]

\* the provider rejects with null or undefined: parseTwitterError throws on
\* error.message and the outer catch returns the failed result
PostFault ==
  /\ Called([kind |-> "null", code |-> 0])
  /\ result' = OuterCatch(accountNumber).result
  /\ pc' = OuterCatch(accountNumber).pc
  /\ UNCHANGED <<callerVars, failedFile, attemptText, retryCount, sleeps>>

postTweetWithClient ==
  \/ PostInvalid
  \/ PostSuccess
  \/ PostRateLimited
  \/ PostDuplicate
  \/ PostFailed
  \/ PostFault

\* ---------------------------------------------------- postTweetToAllAccounts
Returned(op, res, flag) == [op |-> op, results |-> res, flag |-> flag]

\* a list of one failed result
OneFailedResult == <<NoResult>>

\* return [] for no clients
NoResults == <<>>

\* results put in front of the earlier ones
UnshiftResult(res, r) == <<r>> \o res

\* results.push(result)
PushResult(res, r) == Append(res, r)

\* the call: no clients, return []; else post to the first client
postTweetToAllAccounts ==
  /\ pc = "idle"
  /\ caller' = "postToAll"
  /\ \E text \in Texts :
       \/ /\ Len(clients) = 0
          /\ returned' = Returned("postToAll", NoResults, FALSE)
          /\ pc' = "done"
          /\ UNCHANGED <<tweetText, idx, frameVars>>
       \/ /\ Len(clients) > 0
          /\ tweetText' = text
          /\ idx' = 1
          /\ Invoke(text, clients[1], MaxRetries(config))
          /\ UNCHANGED returned
  /\ UNCHANGED <<clients, config, historyFile, failedFile, results, history, todo,
                 skipped, sleeps, provLog, faults, historyBefore, failedBefore,
                 historyFault, genVars, loadVars, unitVars>>

\* the rest of the loop body once postTweetWithClient has returned: push the
\* result, save the history, and either wait and post to the next client or return
NextAccount ==
  /\ pc = "returned"
  /\ caller = "postToAll"
  /\ LET res == PushResult(results, result)
         hist == SavedHistory(historyFault, historyFile, tweetText, res)
     IN /\ results' = res
        /\ historyFile' = SavedFile(historyFault, historyFile, tweetText, res)
        /\ history' = hist
        /\ historyFault' = FaultAfterSave(historyFault)
        /\ IF idx < Len(clients)
           THEN /\ sleeps' = Append(sleeps,
                       Sleep("betweenAccounts",
                             calculateSmartDelay(clients[idx], JsArray(hist)),
                             clients[idx]))
                /\ idx' = idx + 1
                /\ Invoke(tweetText, clients[idx + 1], MaxRetries(config))
                /\ UNCHANGED returned
           ELSE /\ returned' = Returned("postToAll", res, FALSE)
                /\ pc' = "done"
                /\ UNCHANGED <<sleeps, idx, frameVars>>
  /\ UNCHANGED <<clients, config, failedFile, caller, tweetText, todo, skipped,
                 provLog, faults, historyBefore, failedBefore,
                 genVars, loadVars, unitVars>>

\* --------------------------------------------------------- retryFailedTweets
\* a search that finds no client
HasClientNever(n) == FALSE

\* twitterClients.find(c => c.accountNumber === n) finds a client
HasClient(n) == \E k \in 1..Len(clients) : clients[k] = n

\* the queued entries of account n, the newest first
TweetsOfNewestFirst(queue, n) ==
  LET own == SelectSeq(queue, LAMBDA e : e.accountNumber = n)
  IN [k \in 1..Len(own) |-> own[Len(own) + 1 - k]]

\* tweetsByAccount[n]: the queued entries of account n, in queue order
TweetsOf(queue, n) == SelectSeq(queue, LAMBDA e : e.accountNumber = n)

\* for (const accountNumber in tweetsByAccount): integer keys come in ascending
\* order; the groups of accounts that have a client are replayed, the others skipped
RECURSIVE Replay(_, _)
Replay(queue, keys) ==
  IF keys = {}
  THEN <<>>
  ELSE LET n == CHOOSE k \in keys : \A j \in keys : k <= j
       IN (IF HasClient(n) THEN TweetsOf(queue, n) ELSE <<>>)
            \o Replay(queue, keys \ {n})

Keys(queue) == {queue[k].accountNumber : k \in 1..Len(queue)}

\* a test that never finds the queue empty
QueueNeverEmpty(file) == FALSE

\* no file, or failedTweets.length === 0
NothingQueued(file) == Len(file) = 0

\* the call: nothing queued, return false; else group the queue and replay the
\* first entry (when every group is skipped, clear the file and return true)
retryFailedTweets ==
  /\ pc = "idle"
  /\ caller' = "retryFailed"
  /\ IF NothingQueued(failedFile)
     THEN /\ returned' = Returned("retryFailed", <<>>, FALSE)
          /\ pc' = "done"
          /\ UNCHANGED <<failedFile, todo, skipped, idx, frameVars>>
     ELSE LET list == Replay(failedFile, Keys(failedFile))
          IN /\ todo' = list
             /\ skipped' = Len(failedFile) - Len(list)
             /\ IF Len(list) = 0
                THEN /\ failedFile' = clearFailedTweets(failedFile)
                     /\ returned' = Returned("retryFailed", <<>>, TRUE)
                     /\ pc' = "done"
                     /\ UNCHANGED <<idx, frameVars>>
                ELSE /\ idx' = 1
                     /\ Invoke(list[1].text, list[1].accountNumber, 1)
                     /\ UNCHANGED <<failedFile, returned>>
  /\ UNCHANGED <<clients, config, historyFile, tweetText, results, history, sleeps,
                 provLog, faults, historyBefore, failedBefore,
                 historyFault, genVars, loadVars, unitVars>>

\* after postTweetWithClient has returned: sleep 30 s, then the next entry, or
\* clear the file and return true
NextRetry ==
  /\ pc = "returned"
  /\ caller = "retryFailed"
  /\ sleeps' = Append(sleeps, Sleep("betweenRetries", RetryGapMs, accountNumber))
  /\ IF idx < Len(todo)
     THEN /\ idx' = idx + 1
          /\ Invoke(todo[idx + 1].text, todo[idx + 1].accountNumber, 1)
          /\ UNCHANGED <<failedFile, returned>>
     ELSE /\ failedFile' = clearFailedTweets(failedFile)
          /\ returned' = Returned("retryFailed", <<>>, TRUE)
          /\ pc' = "done"
          /\ UNCHANGED <<idx, frameVars>>
  /\ UNCHANGED <<clients, config, historyFile, caller, tweetText, results, history,
                 todo, skipped, provLog, faults, historyBefore, failedBefore,
                 historyFault, genVars, loadVars, unitVars>>

\* every action of PostNext leaves genVars and loadVars unchanged
PostNext ==
  \/ postTweetToAllAccounts
  \/ postTweetWithClient
  \/ NextAccount
  \/ retryFailedTweets
  \/ NextRetry

Next == PostNext

Spec == Init /\ [][Next]_vars

\* the posting operations when tweet_history.json cannot be read, does not
\* parse, or cannot be written; the default configuration
FaultInit ==
  /\ clients \in ClientLists
  /\ config = [maxRetries |-> 0, retryDelay |-> 0]
  /\ historyFile \in InitHistories
  /\ failedFile \in InitQueues
  /\ failedFile # <<>> => historyFile = <<>> /\ Len(clients) <= 2
  /\ PostIdle
  /\ historyFault \in {"read", "parse", "write"}
  /\ GenIdle
  /\ LoadIdle
  /\ UnitIdle

FaultSpec == FaultInit /\ [][Next]_vars

\* ------------------------------------------------------------ generateTweet
REQUIRED_TAGS ==
  <<"@", "g", "i", "v", "e", "r", "e", "p", " ", "@", "P", "a", "w", "t", "a", "t",
  "o", "F", "i", "n", "a", "n", "c", "e", " ", "$", "R", "E", "P">>

\* the lengths of the predefined texts of getAlternativeAIText
AlternativeLengths == {114, 166, 78, 162, 51, 80, 151, 146}

AlternativeTexts == {Pad(n) : n \in AlternativeLengths}

\* what the AI service may answer, trimmed
GeneratedTexts == {Pad(n) : n \in 0..MaxBodyLen}

\* the body with the required tags, cut when the whole is over 280 characters;
\* the same code follows each of the three sources of a body
WithTags(body) ==
  LET tagged == body \o <<" ">> \o REQUIRED_TAGS
  IN IF Len(tagged) > MaxTweetLen
     THEN LET maxMainTextLength == MaxTweetLen - Len(REQUIRED_TAGS) - 1
          IN Substring(body, 0, maxMainTextLength) \o <<".", ".", ".", " ">>
               \o REQUIRED_TAGS
     ELSE tagged

genFrame == <<clients, postVars, loadVars, unitVars>>

\* aiServiceName is "Fallback": a predefined text is used
GenerateFallback ==
  /\ genPc = "start"
  /\ aiServiceName = "Fallback"
  /\ \E alt \in AlternativeTexts :
       /\ generatedText' = alt
       /\ tweet' = WithTags(alt)
  /\ genPc' = "done"
  /\ UNCHANGED <<aiServiceName, genFrame>>

\* the request to the AI service is sent
GenerateCall ==
  /\ genPc = "start"
  /\ aiServiceName # "Fallback"
  /\ genPc' = "calling"
  /\ UNCHANGED <<aiServiceName, generatedText, tweet, genFrame>>

\* the AI service answers with a text
GenerateFromAI ==
  /\ genPc = "calling"
  /\ \E body \in GeneratedTexts :
       /\ generatedText' = body
       /\ tweet' = WithTags(body)
  /\ genPc' = "done"
  /\ UNCHANGED <<aiServiceName, genFrame>>

\* the AI service fails: a predefined text is used
GenerateAlternative ==
  /\ genPc = "calling"
  /\ \E alt \in AlternativeTexts :
       /\ generatedText' = alt
       /\ tweet' = WithTags(alt)
  /\ genPc' = "done"
  /\ UNCHANGED <<aiServiceName, genFrame>>

GenInit ==
  /\ clients = <<>>
  /\ PostQuiet
  /\ historyFault = "none"
  /\ LoadIdle
  /\ UnitIdle
  /\ aiServiceName \in {"Fallback", "AIML", "DeepSeek", "OpenAI"}
  /\ generatedText = <<>>
  /\ tweet = <<>>
  /\ genPc = "start"

GenNext ==
  \/ GenerateFallback
  \/ GenerateCall
  \/ GenerateFromAI
  \/ GenerateAlternative

GenSpec == GenInit /\ [][GenNext]_vars

\* ---------------------------------------------------- lazyLoadTwitterClient
RECURSIVE SplitFrom(_, _, _, _)
SplitFrom(s, sep, i, cur) ==
  IF i > Len(s)
  THEN <<cur>>
  ELSE IF s[i] = sep
       THEN <<cur>> \o SplitFrom(s, sep, i + 1, <<>>)
       ELSE SplitFrom(s, sep, i + 1, Append(cur, s[i]))

\* String.prototype.split(sep) for a one-character separator
Split(s, sep) == SplitFrom(s, sep, 1, <<>>)

IsSpace(c) == c \in {" ", "\t", "\r"}

RECURSIVE TrimStart(_)
TrimStart(s) ==
  IF Len(s) > 0 /\ IsSpace(s[1]) THEN TrimStart(Tail(s)) ELSE s

RECURSIVE TrimEnd(_)
TrimEnd(s) ==
  IF Len(s) > 0 /\ IsSpace(s[Len(s)]) THEN TrimEnd(SubSeq(s, 1, Len(s) - 1)) ELSE s

\* String.prototype.trim()
Trim(s) == TrimEnd(TrimStart(s))

\* line.trim() === '' || line.trim().startsWith('#')
IsSkipped(line) ==
  LET t == Trim(line) IN Len(t) = 0 \/ t[1] = "#"

\* line.split(',').map(item => item.trim())
Parts(line) ==
  LET raw == Split(line, ",") IN [k \in 1..Len(raw) |-> Trim(raw[k])]

\* fileContent.split('\n').filter(skipped).length: the skipped lines of the whole file
SkippedLines(lines) ==
  Cardinality({k \in 1..Len(lines) : IsSkipped(lines[k])})

\* the forEach over the lines: the line numbers that set account for request n
Matches(content, n) ==
  LET lines == Split(content, "\n")
  IN {lineCount \in 1..Len(lines) :
        /\ ~IsSkipped(lines[lineCount])
        /\ Len(Parts(lines[lineCount])) = 4
        /\ lineCount - SkippedLines(lines) = n
        /\ \A k \in 1..4 : Len(Parts(lines[lineCount])[k]) > 0}

\* the account the forEach leaves: the last match, <<>> for null
FoundAccount(content, n) ==
  LET hits == Matches(content, n)
  IN IF hits = {}
     THEN <<>>
     ELSE Parts(Split(content, "\n")[CHOOSE k \in hits : \A j \in hits : k >= j])

lazyLoadTwitterClient ==
  /\ \E n \in 1..MaxLines :
       /\ requested' = n
       /\ IF HasClient(n)
          THEN /\ loadResult' = "existing"
               /\ account' = <<>>
               /\ UNCHANGED clients
          ELSE /\ account' = FoundAccount(fileContent, n)
               /\ IF account' # <<>>
                  THEN /\ clients' = Append(clients, n)
                       /\ loadResult' = "loaded"
                  ELSE /\ loadResult' = "notFound"
                       /\ UNCHANGED clients
  /\ UNCHANGED <<fileContent, postVars, genVars, unitVars>>

\* lines of accounts.txt: two accounts, a blank line, a comment, a line of two
\* fields, a line with an empty field
LineGoodA == <<"a", ",", "b", ",", " ", "c", ",", "d">>
LineGoodE == <<"e", ",", "f", ",", "g", ",", "h", " ">>
LineBlank == <<" ">>
LineComment == <<" ", "#", "a", ",", "b", ",", "c", ",", "d">>
LineShort == <<"a", ",", "b">>
LineEmptyField == <<"a", ",", " ", ",", "c", ",", "d">>

Lines == {<<>>, LineGoodA, LineGoodE, LineBlank, LineComment, LineShort, LineEmptyField}

RECURSIVE Join(_)
Join(lines) ==
  IF Len(lines) = 0 THEN <<>>
  ELSE IF Len(lines) = 1 THEN lines[1]
  ELSE lines[1] \o <<"\n">> \o Join(Tail(lines))

\* the files of up to MaxLines lines
Files == UNION {{Join(ls) : ls \in [1..n -> Lines]} : n \in 0..MaxLines}

LoadInit ==
  /\ clients \in {<<>>, <<1>>}
  /\ PostQuiet
  /\ historyFault = "none"
  /\ GenIdle
  /\ UnitIdle
  /\ fileContent \in Files
  /\ requested = 0
  /\ loadResult = "none"
  /\ account = <<>>

LoadNext == lazyLoadTwitterClient

LoadSpec == LoadInit /\ [][LoadNext]_vars

\* ------------------------------------------------------ calculateSmartDelay
\* history entries: account 1 succeeded; accounts 2 and 1 posted and 1 failed;
\* only account 2 posted; an entry with a null after the outcome of account 2
HistoryOk == [text |-> TextPlain, accounts |-> <<Outcome(1, TRUE)>>]
HistoryFail == [text |-> TextPlain, accounts |-> <<Outcome(2, TRUE), Outcome(1, FALSE)>>]
HistoryOther == [text |-> TextPlain, accounts |-> <<Outcome(2, FALSE)>>]
HistoryBad == [text |-> TextPlain, accounts |-> <<Outcome(2, TRUE), NullOutcome>>]

Repeat(e, n) == [i \in 1..n |-> e]

HistoryEdges == {<<>>, <<HistoryOther>>, <<HistoryBad>>}

\* f failures and s successes of account 1, the failures older or newer than
\* the successes, with an entry of another kind before and after them
DelayShapes ==
  {sh \in [pre : HistoryEdges, post : HistoryEdges, f : 0..MaxHistory,
           s : 0..MaxHistory, failsOldest : BOOLEAN] : sh.f + sh.s <= MaxHistory}

ShapedHistory(sh) ==
  sh.pre
    \o (IF sh.failsOldest
        THEN Repeat(HistoryFail, sh.f) \o Repeat(HistoryOk, sh.s)
        ELSE Repeat(HistoryOk, sh.s) \o Repeat(HistoryFail, sh.f))
    \o sh.post

DelayHistories == {NullHistory} \cup {JsArray(ShapedHistory(sh)) : sh \in DelayShapes}

DelayInit ==
  /\ clients = <<>>
  /\ PostQuiet
  /\ historyFault = "none"
  /\ GenIdle
  /\ LoadIdle
  /\ delayAccount \in {1, 2}
  /\ delayHistory \in DelayHistories
  /\ delayMs = 0
  /\ appended = <<>>

\* the call calculateSmartDelay(delayAccount, delayHistory)
DelayCall ==
  /\ delayMs = 0
  /\ delayMs' = calculateSmartDelay(delayAccount, delayHistory)
  /\ UNCHANGED <<clients, postVars, genVars, loadVars, delayAccount, delayHistory,
                 appended>>

DelayNext == DelayCall

DelaySpec == DelayInit /\ [][DelayNext]_vars

\* --------------------------------------------------------- saveTweetHistory
\* the k-th record pushed: a text of k characters, one outcome of account 1
NthText(k) == Pad(k)

NthResults(k) == <<Outcome(1, k % 2 = 0)>>

NthRecord(k) == [text |-> NthText(k), accounts |-> NthResults(k)]

\* tweet_history.json one record short of full
AlmostFull == [k \in 1..(HistoryCap - 1) |-> NthRecord(k)]

HistInit ==
  /\ clients = <<>>
  /\ config = [maxRetries |-> 0, retryDelay |-> 0]
  /\ historyFile \in {<<>>, AlmostFull}
  /\ failedFile = <<>>
  /\ PostIdle
  /\ historyFault = "none"
  /\ GenIdle
  /\ LoadIdle
  /\ delayAccount = 0
  /\ delayHistory = NullHistory
  /\ delayMs = 0
  /\ appended = historyFile

\* one call saveTweetHistory(text, results): read the file, push, cut, write
HistAppend ==
  /\ Len(appended) < MaxAppends
  /\ LET k == Len(appended) + 1
     IN /\ historyFile' = saveTweetHistory(historyFile, NthText(k), NthResults(k))
        /\ appended' = Append(appended, NthRecord(k))
  /\ UNCHANGED <<clients, config, failedFile, pc, caller, tweetText, idx, results,
                 history, todo, skipped, attemptText, retryCount, accountNumber,
                 result, lastOutcome, callText, callRetries, callQueued, calls,
                 sleeps, provLog, invLog, faults, returned, historyBefore,
                 failedBefore, historyFault, genVars, loadVars, delayAccount,
                 delayHistory, delayMs>>

HistNext == HistAppend

HistSpec == HistInit /\ [][HistNext]_vars

\* ================================================================== claims

\* C1: when a postTweetToAllAccounts run over n >= 1 clients has completed, the
\* history file has gained exactly one entry, and that entry carries n outcomes.
C1_OneEntryPerRun ==
  (pc = "done" /\ caller = "postToAll" /\ Len(clients) >= 1)
    => /\ Len(historyFile) = Len(historyBefore) + 1
       /\ Len(historyFile[Len(historyFile)].accounts) = Len(clients)

\* C2: a retry pass started on a non-empty Failure Queue ends with the queue
\* empty, whatever happened to each entry (replayed with success, failed again
\* and queued again during the pass, or skipped for lack of a client).
C2_QueueEmptyAfterPass ==
  (pc = "done" /\ caller = "retryFailed" /\ Len(failedBefore) > 0)
    => Len(failedFile) = 0

\* a pass that skipped an entry, replayed others, and saw a replay fail again
C2_Witness ==
  /\ pc = "done"
  /\ caller = "retryFailed"
  /\ skipped > 0
  /\ \E k \in 1..Len(provLog) : provLog[k].class = "failed"
  /\ \E k \in 1..Len(provLog) : provLog[k].class = "ok"

\* C3: a postTweetWithClient call that returns a failed result for account N
\* has appended one record for account N to the Failure Queue.
C3_FailureQueued ==
  (pc = "returned" /\ ~result.success)
    => /\ Len(failedFile) = callQueued + 1
       /\ failedFile[Len(failedFile)].accountNumber = accountNumber

\* the provider is fair to a call in progress: it answers, and a sleep ends
FairSpec == Spec /\ WF_vars(postTweetWithClient)

\* C4: a postTweetWithClient call started with retryCount r reaches a terminal
\* result for any provider responses; every retry lowers the budget by exactly
\* one, and the call makes at most r + 1 provider calls.
C4_BoundedRetries ==
  /\ [](calls <= callRetries + 1)
  /\ [][(pc = "attempt" /\ pc' = "attempt") =>
          (calls' = calls + 1 /\ retryCount' = retryCount - 1 /\ retryCount > 0)]_vars
  /\ (pc = "attempt") ~> (pc = "returned")

\* a call that used its whole budget of MaxRetriesCfg retries and then returned
C4_Witness ==
  /\ pc = "returned"
  /\ callRetries = MaxRetriesCfg
  /\ calls = callRetries + 1
  /\ retryCount = 0

\* C5: postTweetWithClient on an empty text or a text of more than 280
\* characters returns a failed result at once: no provider call, no retry, no
\* sleep, whatever the retry budget.
C5_InvalidTextFailsAtOnce ==
  [][(pc = "attempt" /\ (Len(attemptText) = 0 \/ Len(attemptText) > 280)) =>
       /\ pc' = "returned"
       /\ ~result'.success
       /\ result'.accountNumber = accountNumber
       /\ calls' = calls
       /\ provLog' = provLog
       /\ sleeps' = sleeps
       /\ retryCount' = retryCount]_vars

\* a text of 281 characters has been refused with a budget of MaxRetriesCfg
C5_Witness ==
  /\ pc = "returned"
  /\ Len(attemptText) = 281
  /\ retryCount = MaxRetriesCfg
  /\ calls = 0
  /\ ~result.success

\* the posting of a text to three accounts where the provider rate-limits the
\* first call of account 2 and accepts every other call
RateLimitedOnce ==
  /\ pc = "done"
  /\ caller = "postToAll"
  /\ clients = <<1, 2, 3>>
  /\ Len(provLog) = 4
  /\ provLog[1].accountNumber = 1 /\ provLog[1].class = "ok"
  /\ provLog[2].accountNumber = 2 /\ provLog[2].class = "rateLimited"
  /\ provLog[3].accountNumber = 2 /\ provLog[3].class = "ok"
  /\ provLog[4].accountNumber = 3 /\ provLog[4].class = "ok"

RetrySleeps == {k \in 1..Len(sleeps) : sleeps[k].why \in {"rateLimit", "duplicate"}}

\* C8: on code 429 with retries left, postTweetWithClient sleeps once for the
\* configured retry delay (300 s when none is configured) and retries with the
\* same text; when the retry is accepted the result is a success; three
\* accounts with account 2 rate-limited once give three successes and one
\* retry sleep.
C8_RateLimitRetry ==
  /\ [][(pc = "attempt" /\ calls' = calls + 1 /\ retryCount > 0
           /\ lastOutcome' = [kind |-> "error", code |-> 429]) =>
          /\ pc' = "attempt"
          /\ attemptText' = attemptText
          /\ Len(sleeps') = Len(sleeps) + 1
          /\ sleeps'[Len(sleeps')].ms =
               (IF config.retryDelay = 0 THEN 300 ELSE config.retryDelay) * 1000]_vars
  /\ []((pc = "returned" /\ lastOutcome.kind = "ok") => result.success)
  /\ [](RateLimitedOnce =>
          /\ returned.results = <<Outcome(1, TRUE), Outcome(2, TRUE), Outcome(3, TRUE)>>
          /\ Cardinality(RetrySleeps) = 1
          /\ \A k \in RetrySleeps : sleeps[k].accountNumber = 2)

\* the three-account run has ended, with a configured retry delay
C8_Witness == RateLimitedOnce /\ config.retryDelay # 0

IsDigit(c) == c \in {"0", "1", "2", "3", "4", "5", "6", "7", "8", "9"}

\* m is "[" HH ":" MM ":" SS "]"
IsMarker(m) ==
  /\ Len(m) = 10
  /\ m[1] = "[" /\ m[10] = "]"
  /\ m[4] = ":" /\ m[7] = ":"
  /\ \A k \in {2, 3, 5, 6, 8, 9} : IsDigit(m[k])

\* positions (1-based) where the mention starts in t
MentionAt(t) == {i \in 1..Len(t) : i + 7 <= Len(t) /\ SubSeq(t, i, i + 7) = MentionToken}

\* u is t with a marker put before the first mention (a space between them),
\* or put at the end after a space when t has no mention
Marked(t, u) ==
  /\ Len(u) = Len(t) + 11
  /\ IF MentionAt(t) # {}
     THEN \E i \in MentionAt(t) :
            /\ \A j \in MentionAt(t) : i <= j
            /\ SubSeq(u, 1, i - 1) = SubSeq(t, 1, i - 1)
            /\ IsMarker(SubSeq(u, i, i + 9))
            /\ u[i + 10] = " "
            /\ SubSeq(u, i + 11, Len(u)) = SubSeq(t, i, Len(t))
     ELSE /\ SubSeq(u, 1, Len(t)) = t
          /\ u[Len(t) + 1] = " "
          /\ IsMarker(SubSeq(u, Len(t) + 2, Len(u)))

\* C9: on code 187 with retries left, the retry is made with the text marked
\* with one bracketed HH:MM:SS marker: right before the first occurrence of the
\* mention when the text has one, at the end otherwise; the rest is unchanged.
C9_DuplicateRetryText ==
  [][(pc = "attempt" /\ calls' = calls + 1 /\ retryCount > 0
        /\ lastOutcome' = [kind |-> "error", code |-> 187]) =>
       /\ pc' = "attempt"
       /\ Marked(attemptText, attemptText')]_vars

\* the retry of a text with two mentions is about to be made
C9_Witness ==
  /\ pc = "attempt"
  /\ callText = TextTwoTags
  /\ lastOutcome = [kind |-> "error", code |-> 187]
  /\ Len(attemptText) = Len(TextTwoTags) + 11

\* C10: the record queued by a postTweetWithClient call that ends in permanent
\* failure has the account of the call and, as text, the text the caller
\* passed in, also after a duplicate-content retry.
C10_QueuedTextVerbatim ==
  (pc = "returned" /\ ~result.success /\ Len(failedFile) = callQueued + 1)
    => failedFile[Len(failedFile)] = FailedRecord(callText, accountNumber)

\* C6: the tweet returned by generateTweet is at most 280 characters long,
\* whatever the length of the body.
C6_TweetFits == genPc = "done" => Len(tweet) <= 280

\* the lines of the file that are neither blank nor comments, in file order
DataLines(content) == SelectSeq(Split(content, "\n"), LAMBDA l : ~IsSkipped(l))

FourFields(line) ==
  /\ Len(Parts(line)) = 4
  /\ \A k \in 1..4 : Len(Parts(line)[k]) > 0

\* C7: the k-th line of the credentials file that is neither blank nor a
\* comment is account k, wherever the blank and comment lines are: a request
\* for a number k that is not loaded yet yields a client exactly when that
\* k-th line has four non-empty fields, and the client has its credentials.
C7_LineNumbering ==
  loadResult \in {"loaded", "notFound"} =>
    LET data == DataLines(fileContent)
    IN IF requested <= Len(data) /\ FourFields(data[requested])
       THEN loadResult = "loaded" /\ account = Parts(data[requested])
       ELSE loadResult = "notFound"

\* C11: postTweetWithClient ends every invocation by returning a result that
\* carries the account number of its client, whatever the provider did (a
\* response with or without an id, an error with or without a code, a
\* rejection with a value that is no error object) and whatever the text; no
\* fault is thrown on to the caller, and postTweetToAllAccounts ends by
\* returning its results.
C11_AlwaysAResult ==
  /\ [](pc \in {"idle", "attempt", "returned", "done"})
  /\ [][(pc = "attempt" /\ pc' # "attempt") =>
          /\ pc' = "returned"
          /\ result'.accountNumber = accountNumber
          /\ result'.success \in BOOLEAN]_vars
  /\ []((pc = "returned" /\ lastOutcome.kind # "ok") => ~result.success)
  /\ []((caller = "postToAll" /\ pc = "done") => returned.op = "postToAll")

\* the provider rejected with a value that is no error object, and the
\* invocation returned the failed result of its account
C11_Witness ==
  /\ pc = "returned"
  /\ caller = "postToAll"
  /\ lastOutcome.kind = "null"
  /\ result = Outcome(accountNumber, FALSE)

\* the accounts of the entry are outcomes, none is null
WellFormed(e) == \A k \in 1..Len(e.accounts) : e.accounts[k].accountNumber # 0

\* the entry has an outcome for account n
HasOutcome(e, n) == \E k \in 1..Len(e.accounts) : e.accounts[k].accountNumber = n

\* the search for account n in the entry reads a null
ReadsNull(e, n) ==
  \E k \in 1..Len(e.accounts) :
    /\ e.accounts[k].accountNumber = 0
    /\ \A j \in 1..(k - 1) : e.accounts[j].accountNumber # n

\* the outcome entries of account n in hist, oldest first
EntriesOf(hist, n) == SelectSeq(hist, LAMBDA e : HasOutcome(e, n))

\* the latest ten of them
LatestTen(seq) == IF Len(seq) > 10 THEN SubSeq(seq, Len(seq) - 9, Len(seq)) ELSE seq

FailedIn(e, n) ==
  \E k \in 1..Len(e.accounts) :
    e.accounts[k].accountNumber = n /\ ~e.accounts[k].success

\* C12: for a history of well-formed entries whose latest (at most ten)
\* outcomes of the account number at least 3, with r = failed / sample size,
\* calculateSmartDelay returns 120000 when r > 0.5, 60000 when 0.3 < r <= 0.5,
\* 45000 when 0.1 < r <= 0.3 and 30000 when r <= 0.1.
C12_DelayLadder ==
  (delayMs # 0 /\ ~delayHistory.null
     /\ \A i \in 1..Len(delayHistory.items) : WellFormed(delayHistory.items[i])) =>
    LET sample == LatestTen(EntriesOf(delayHistory.items, delayAccount))
        size == Len(sample)
        failed == Cardinality({i \in 1..size : FailedIn(sample[i], delayAccount)})
    IN size >= 3 =>
         /\ 10 * failed > 5 * size => delayMs = 120000
         /\ (10 * failed > 3 * size /\ 10 * failed <= 5 * size) => delayMs = 60000
         /\ (10 * failed > size /\ 10 * failed <= 3 * size) => delayMs = 45000
         /\ 10 * failed <= size => delayMs = 30000

\* three failures in ten outcomes, an error rate of exactly 0.3, give 45000
C12_Witness ==
  /\ delayMs = 45000
  /\ delayAccount = 1
  /\ delayHistory = JsArray(Repeat(HistoryFail, 3) \o Repeat(HistoryOk, 7))

\* the scan, newest entry first, comes to the malformed entry i before it has
\* sampled ten outcomes of account n
ScanMeets(hist, n, i) ==
  /\ ReadsNull(hist[i], n)
  /\ \A j \in (i + 1)..Len(hist) : ~ReadsNull(hist[j], n)
  /\ Cardinality({j \in (i + 1)..Len(hist) : HasOutcome(hist[j], n)}) < 10

\* C13: calculateSmartDelay returns 30000 when the history is absent or empty
\* or has fewer than 3 entries with an outcome of the account, whatever these
\* outcomes; and where a malformed entry makes the scan throw, it returns
\* 30000 too: every call returns a delay.
C13_DefaultDelay ==
  delayMs # 0 =>
    /\ delayMs \in {30000, 45000, 60000, 120000}
    /\ delayHistory.null => delayMs = 30000
    /\ Len(EntriesOf(delayHistory.items, delayAccount)) < 3 => delayMs = 30000
    /\ (\E i \in 1..Len(delayHistory.items) :
          ScanMeets(delayHistory.items, delayAccount, i)) => delayMs = 30000

\* two outcomes, both failures, after a malformed entry
C13_Witness ==
  /\ delayMs = 30000
  /\ delayAccount = 1
  /\ delayHistory = JsArray(<<HistoryBad>> \o Repeat(HistoryFail, 2))

\* C14: after any number of saveTweetHistory calls the history file holds at
\* most 100 records: the latest records pushed, in the order they were
\* pushed, the newest last; the push that would make 101 drops the oldest.
C14_HistoryCapped ==
  /\ Len(historyFile) <= 100
  /\ LET n == Len(appended)
     IN historyFile = SubSeq(appended, IF n > 100 THEN n - 99 ELSE 1, n)

\* the 101st record has been pushed to a file that started empty
C14_Witness ==
  /\ Len(historyBefore) = 0
  /\ Len(appended) = 101
  /\ Len(historyFile) = 100
  /\ historyFile[1] = appended[2]

\* C15: postTweetToAllAccounts returns one result per client, result i being
\* that of client i of the list, and posts strictly in sequence: a provider
\* call is made for the client that follows those which have their result,
\* retries included.
C15_OrderedSequential ==
  /\ []((pc = "done" /\ caller = "postToAll") =>
          /\ Len(returned.results) = Len(clients)
          /\ \A i \in 1..Len(clients) : returned.results[i].accountNumber = clients[i])
  /\ [][(caller = "postToAll" /\ Len(provLog') = Len(provLog) + 1) =>
          /\ Len(results) < Len(clients)
          /\ provLog'[Len(provLog')].accountNumber = clients[Len(results) + 1]
          /\ \A i \in 1..Len(results) : results[i].accountNumber = clients[i]]_vars

\* a run over the clients 2, 1 where the post of client 2 was retried
C15_Witness ==
  /\ pc = "done"
  /\ caller = "postToAll"
  /\ clients = <<2, 1>>
  /\ Len(provLog) = 3
  /\ provLog[1].class = "rateLimited"
  /\ provLog[2].accountNumber = 2
  /\ provLog[3].accountNumber = 1

\* the account has a client in the list
Loaded(n) == \E c \in 1..Len(clients) : clients[c] = n

\* C16: in a retry pass over a non-empty queue, the entries of an account
\* without a client are skipped (no invocation of postTweetWithClient, no
\* provider call), and the entries of an account with a client are replayed
\* through postTweetWithClient one by one in the order they had in the queue.
C16_ReplayInQueueOrder ==
  (pc = "done" /\ caller = "retryFailed" /\ Len(failedBefore) > 0) =>
    /\ \A k \in 1..Len(provLog) : Loaded(provLog[k].accountNumber)
    /\ \A n \in {failedBefore[k].accountNumber : k \in 1..Len(failedBefore)} :
         LET queued == SelectSeq(failedBefore, LAMBDA e : e.accountNumber = n)
             replayed == SelectSeq(invLog, LAMBDA v : v.accountNumber = n)
         IN IF Loaded(n)
            THEN /\ Len(replayed) = Len(queued)
                 /\ \A k \in 1..Len(queued) : replayed[k].text = queued[k].text
            ELSE replayed = <<>>

\* two entries of account 1 and one of account 2 in the queue, a client for
\* account 1 only: the pass has ended, one entry skipped
C16_Witness ==
  /\ pc = "done"
  /\ caller = "retryFailed"
  /\ failedBefore = QueueAB
  /\ clients = <<1>>
  /\ skipped = 1
  /\ Len(invLog) = 2
  /\ invLog[1].text = TextPlain
  /\ invLog[2].text = TextTwoTags

\* C17: postTweetWithClient returns a success only after a provider response
\* that carries an id; on a response without an id it returns the failed
\* result of its account as on any other final failure: the text is queued,
\* there is no retry and no sleep.
C17_SuccessNeedsId ==
  /\ []((pc = "returned" /\ result.success) => lastOutcome = [kind |-> "ok", code |-> 0])
  /\ [][(pc = "attempt" /\ calls' = calls + 1 /\ lastOutcome'.kind = "noid") =>
          /\ pc' = "returned"
          /\ result' = [accountNumber |-> accountNumber, success |-> FALSE]
          /\ retryCount' = retryCount
          /\ sleeps' = sleeps
          /\ failedFile' =
               Append(failedFile, [text |-> attemptText, accountNumber |-> accountNumber])]_vars

\* a response without an id has ended an invocation that had retries left
C17_Witness ==
  /\ pc = "returned"
  /\ lastOutcome.kind = "noid"
  /\ retryCount = MaxRetriesCfg
  /\ ~result.success
  /\ Len(failedFile) = callQueued + 1

\* C18: retryFailedTweets on an absent or empty Failure Queue returns false
\* and does nothing else: no invocation of postTweetWithClient, no provider
\* call, no sleep, and both files are as they were.
C18_EmptyQueueNoEffect ==
  (pc = "done" /\ caller = "retryFailed" /\ Len(failedBefore) = 0) =>
    /\ returned = [op |-> "retryFailed", results |-> <<>>, flag |-> FALSE]
    /\ invLog = <<>>
    /\ provLog = <<>>
    /\ sleeps = <<>>
    /\ failedFile = failedBefore
    /\ historyFile = historyBefore

\* the pass has returned with nothing queued, clients loaded and a history
C18_Witness ==
  /\ pc = "done"
  /\ caller = "retryFailed"
  /\ failedBefore = <<>>
  /\ Len(clients) = MaxClients
  /\ Len(historyFile) > 0
  /\ ~returned.flag

\* C19: postTweetToAllAccounts with no clients returns the empty list at once:
\* no invocation of postTweetWithClient, no provider call, no sleep, and both
\* files are as they were.
C19_NoClientsNoEffect ==
  (pc = "done" /\ caller = "postToAll" /\ Len(clients) = 0) =>
    /\ returned = [op |-> "postToAll", results |-> <<>>, flag |-> FALSE]
    /\ invLog = <<>>
    /\ provLog = <<>>
    /\ sleeps = <<>>
    /\ failedFile = failedBefore
    /\ historyFile = historyBefore

\* the run has returned with no clients and a Failure Queue left by earlier runs
C19_Witness ==
  /\ pc = "done"
  /\ caller = "postToAll"
  /\ clients = <<>>
  /\ failedFile = QueueAB
  /\ returned.results = <<>>

\* C20: a postTweetWithClient invocation whose text fails the validation
\* (empty, or longer than 280 characters) leaves the Failure Queue as it was,
\* so that the text is not replayed by a later retry pass.
C20_InvalidNeverQueued ==
  (pc = "returned" /\ (Len(callText) = 0 \/ Len(callText) > 280))
    => Len(failedFile) = callQueued

\* C21: retryFailedTweets returns true only when at least one queued entry
\* was replayed through postTweetWithClient during the pass; when every
\* entry is skipped for lack of a client it returns false.
C21_TrueOnlyIfReplayed ==
  (pc = "done" /\ caller = "retryFailed" /\ returned.flag) => Len(invLog) > 0

\* the 30 s waits of a retry pass that follow a replay for account n
GapsOf(n) ==
  Cardinality({k \in 1..Len(sleeps) :
                 sleeps[k].why = "betweenRetries" /\ sleeps[k].accountNumber = n})

\* the replays of a retry pass for account n
ReplaysOf(n) == Cardinality({k \in 1..Len(invLog) : invLog[k].accountNumber = n})

\* C22: in a retry pass the 30 s wait comes only between two entries of the
\* same account: a group of k replayed entries has k - 1 such waits, none
\* after its last entry.
C22_WaitsBetweenEntries ==
  (pc = "done" /\ caller = "retryFailed") =>
    \A n \in 1..MaxClients : ReplaysOf(n) > 0 => GapsOf(n) = ReplaysOf(n) - 1

\* the delay policy for account n over the well-formed history hist
PolicyDelay(hist, n) ==
  LET sample == LatestTen(EntriesOf(hist, n))
      size == Len(sample)
      failed == Cardinality({i \in 1..size : FailedIn(sample[i], n)})
  IN IF size < 3 THEN 30000
     ELSE IF 10 * failed > 5 * size THEN 120000
     ELSE IF 10 * failed > 3 * size THEN 60000
     ELSE IF 10 * failed > size THEN 45000
     ELSE 30000

BetweenAccounts == {k \in 1..Len(sleeps) : sleeps[k].why = "betweenAccounts"}

\* C23: postTweetToAllAccounts over n distinct clients waits n - 1 times
\* between accounts: after each client but the last, for the delay the
\* policy gives for that client on the history as just saved with its
\* result; after the last client it returns without a wait.
C23_WaitsBetweenAccounts ==
  /\ [][(caller = "postToAll" /\ pc = "returned") =>
          LET k == Len(results) + 1
          IN IF k < Len(clients)
             THEN sleeps' =
                    Append(sleeps,
                           [why |-> "betweenAccounts",
                            ms |-> PolicyDelay(historyFile', clients[k]),
                            accountNumber |-> clients[k]])
             ELSE sleeps' = sleeps /\ pc' = "done"]_vars
  /\ []((pc = "done" /\ caller = "postToAll" /\ Len(clients) > 0) =>
          Cardinality(BetweenAccounts) = Len(clients) - 1)

\* a run over three clients on a history that holds failures of account 1:
\* the wait after client 1 was longer than the default
C23_Witness ==
  /\ pc = "done"
  /\ caller = "postToAll"
  /\ Len(clients) = MaxClients
  /\ historyBefore = HistoryFailing
  /\ Cardinality(BetweenAccounts) = MaxClients - 1
  /\ sleeps[1].ms = 120000

\* C24: at every point of a postTweetToAllAccounts run, once k >= 1 clients
\* have their result pushed, the newest history record is the text of the run
\* with the outcomes of these k clients in client order; only the result of
\* the client being posted to is not yet in the file.
C24_ProgressSaved ==
  caller = "postToAll" =>
    /\ Len(results) >= 1 =>
         /\ Len(historyFile) >= 1
         /\ historyFile[Len(historyFile)] = [text |-> tweetText, accounts |-> results]
         /\ \A i \in 1..Len(results) : results[i].accountNumber = clients[i]
    /\ pc \in {"attempt", "returned"} => Len(results) = idx - 1
    /\ pc = "done" => Len(results) = Len(clients)

\* the second of three clients is being posted to, the result of the first
\* is in the file
C24_Witness ==
  /\ caller = "postToAll"
  /\ pc = "attempt"
  /\ Len(clients) = MaxClients
  /\ idx = 2
  /\ Len(historyFile) = Len(historyBefore) + 1
  /\ Len(historyFile[Len(historyFile)].accounts) = 1

\* C25: postTweetWithClient retries on the error codes 429 and 187 only, and
\* only with retries left: an error with another code (88, the rate limit
\* code of the classifier, included) or without a code, whatever its message
\* says of a duplicate or a rate limit, ends the invocation at its first
\* failure; what parseTwitterError makes of the error has no part in it.
C25_RetryOnRawCodesOnly ==
  [][(pc = "attempt" /\ calls' = calls + 1 /\ lastOutcome'.kind \notin {"ok", "null"}) =>
       IF lastOutcome'.kind = "error" /\ lastOutcome'.code \in {429, 187} /\ retryCount > 0
       THEN pc' = "attempt" /\ retryCount' = retryCount - 1
       ELSE /\ pc' = "returned"
            /\ ~result'.success
            /\ retryCount' = retryCount
            /\ sleeps' = sleeps]_vars

\* an error without a code whose message tells of a duplicate has ended an
\* invocation that had retries left
C25_Witness ==
  /\ pc = "returned"
  /\ lastOutcome.kind = "duplicateMessage"
  /\ calls = 1
  /\ retryCount = MaxRetriesCfg
  /\ ~result.success

\* C29: every text handed to the provider is non-empty and at most 280
\* characters long, the marked text of a duplicate-content retry included:
\* when the marker makes the text longer than 280 characters the retry is
\* refused by the validation, without a provider call, and the invocation
\* ends in failure.
C29_ProviderTextsValid ==
  /\ [](\A k \in 1..Len(provLog) :
          Len(provLog[k].text) >= 1 /\ Len(provLog[k].text) <= 280)
  /\ [][(pc = "attempt" /\ calls >= 1 /\ lastOutcome = [kind |-> "error", code |-> 187]
           /\ Len(attemptText) > 280) =>
          /\ pc' = "returned"
          /\ ~result'.success
          /\ calls' = calls
          /\ provLog' = provLog]_vars

\* a text of 280 characters was refused as a duplicate, marked, and the
\* marked text of 291 characters was refused by the validation
C29_Witness ==
  /\ pc = "returned"
  /\ Len(callText) = 280
  /\ Len(attemptText) = 291
  /\ calls = 1
  /\ lastOutcome = [kind |-> "error", code |-> 187]
  /\ ~result.success

\* C26: calculateSmartDelay looks at the (at most) ten newest entries that
\* hold an outcome of the account and at nothing else: for a history whose
\* entries can be searched for the account, the delay is the one returned for
\* these entries alone, so that entries without an outcome of the account and
\* older entries with one do not change it.
C26_SampleNewestTen ==
  (delayMs # 0 /\ ~delayHistory.null
     /\ \A i \in 1..Len(delayHistory.items) : ~ReadsNull(delayHistory.items[i], delayAccount))
    => LET newest == LatestTen(EntriesOf(delayHistory.items, delayAccount))
       IN /\ Len(newest) <= 10
          /\ delayMs = calculateSmartDelay(delayAccount, JsArray(newest))

\* eleven outcomes of account 1, the oldest of them a failure that would
\* raise the delay to 120000, and a newer entry of account 2 alone
C26_Witness ==
  /\ delayMs = 60000
  /\ delayAccount = 1
  /\ delayHistory =
       JsArray(Repeat(HistoryFail, 6) \o Repeat(HistoryOk, 5) \o <<HistoryOther>>)

\* C27: from a list of clients with distinct account numbers, any sequence
\* of lazyLoadTwitterClient calls keeps the account numbers distinct: a call
\* for a number in the list returns the client found and leaves the list as
\* it is, a call that finds no account returns null and leaves the list as it
\* is, and a call that loads an account appends one client, with that number.
C27_NoDuplicateClients ==
  /\ [](\A i, j \in 1..Len(clients) : i # j => clients[i] # clients[j])
  /\ [][IF \E c \in 1..Len(clients) : clients[c] = requested'
         THEN loadResult' = "existing" /\ clients' = clients
         ELSE \/ loadResult' = "notFound" /\ clients' = clients
              \/ loadResult' = "loaded" /\ clients' = Append(clients, requested')]_vars

\* a second client was loaded and a later call for its number found it
C27_Witness ==
  /\ Len(clients) = 2
  /\ loadResult = "existing"
  /\ requested = clients[2]
  /\ requested # 1

\* C28: when tweet_history.json cannot be read, parsed or written during
\* postTweetToAllAccounts, every client is still posted to and the run
\* returns one result per client, in client order; the history kept in memory
\* is the empty one when the read or the write fails (the file is left as it
\* was) and holds the records of this run alone when the file did not parse;
\* every wait between accounts is then the default of 30000 ms.
C28_HistoryFaultTolerated ==
  caller = "postToAll" =>
    /\ pc = "done" =>
         /\ Len(returned.results) = Len(clients)
         /\ Len(invLog) = Len(clients)
         /\ \A i \in 1..Len(clients) :
              /\ returned.results[i].accountNumber = clients[i]
              /\ invLog[i].accountNumber = clients[i]
    /\ historyFault \in {"read", "write"} =>
         /\ history = <<>>
         /\ historyFile = historyBefore
    /\ (historyFault = "none" /\ Len(results) >= 1) =>
         /\ Len(history) = Len(results)
         /\ history[Len(history)].accounts = results
    /\ \A k \in 1..Len(sleeps) :
         sleeps[k].why = "betweenAccounts" => sleeps[k].ms = 30000

\* a run over three clients has ended while the file, which holds failures
\* of account 1, could not be written
C28_Witness ==
  /\ pc = "done"
  /\ caller = "postToAll"
  /\ historyFault = "write"
  /\ Len(clients) = MaxClients
  /\ historyBefore = HistoryFailing
  /\ Len(returned.results) = MaxClients
  /\ Cardinality({k \in 1..Len(sleeps) : sleeps[k].ms = 30000}) = MaxClients - 1

====
